---------------------------- MODULE Spec2Model ----------------------------
(***************************************************************************)
(* Model of newapp.py: the JSON -> table helpers (find_first_list,         *)
(* json_to_dataframe, pick_preferred_columns, interactive_table), the two  *)
(* HTTP wrappers (safe_request_post, safe_request_get) and the two flows   *)
(* (create_request_flow, view_request_flow).                               *)
(*                                                                         *)
(* Representation.                                                         *)
(*  - A JSON value is a record [t, v]: t is "null", "str", "list" or       *)
(*    "dict"; v is the payload.  Python's None is the JSON null.           *)
(*  - A string that is used as a mapping key or a column name is a         *)
(*    sequence of tokens; the token "." is the separator character and     *)
(*    every other token is a dot-free, non-empty piece of text.  The key   *)
(*    "id" is <<"id">>, the column "status.name" is <<"status",".","name">>*)
(*    and the empty string is <<>>.  Joining is \o, splitting cuts at ".". *)
(*  - A mapping's payload is the sequence of its <<key, value>> entries in *)
(*    insertion order, keys unique (a Python dict).                        *)
(*  - A DataFrame is [cols, rows]: the column names in order and, per row, *)
(*    the cells aligned with cols.  A missing cell is NaN.                 *)
(***************************************************************************)
EXTENDS Integers, Sequences, FiniteSets, TLC

VARIABLES
    op,         \* the operation that has run: "none" before any
    obj,        \* find_first_list: its argument
    found,      \* find_first_list: its result
    data,       \* json_normalize of one mapping: the mapping
    flat,       \* json_normalize of one mapping: the flattened row
    df,         \* the table before projection
    preferred,  \* the preference list handed to pick_preferred_columns
    df_clean,   \* the table after pick_preferred_columns
    resp,       \* the HTTP exchange the environment answers with
    lib,        \* the installed requests / pandas behaviour
    status,     \* safe_request_*: status code, {} for None
    text,       \* safe_request_*: "body" (r.text) or "error" (str(e))
    j,          \* safe_request_*: the pre-parsed JSON, None when absent
    parsed,     \* the flow's parsed payload
    display,    \* what the flow finally shows
    shown       \* the table handed to st.dataframe

vars == <<op, obj, found, data, flat, df, preferred, df_clean,
          resp, lib, status, text, j, parsed, display, shown>>

----------------------------------------------------------------------------
(* JSON values *)

None == [t |-> "null", v |-> <<>>]
Str(s) == [t |-> "str", v |-> s]
List(items) == [t |-> "list", v |-> items]
Dict(entries) == [t |-> "dict", v |-> entries]
NaN == [t |-> "nan", v |-> <<>>]

IsNone(x) == x.t = "null"
IsList(x) == x.t = "list"
IsDict(x) == x.t = "dict"

\* a == b for two JSON values (the tags are compared first)
Same(a, b) == a.t = b.t /\ a = b

Range(s) == {s[i] : i \in 1..Len(s)}

\* list(d.keys()), list(d.values()), k in d, d[k]
KeysOf(entries) == [i \in 1..Len(entries) |-> entries[i][1]]
ValuesOf(entries) == [i \in 1..Len(entries) |-> entries[i][2]]
HasKey(entries, k) == \E i \in 1..Len(entries) : entries[i][1] = k
Get(entries, k) == entries[CHOOSE i \in 1..Len(entries) : entries[i][1] = k][2]

\* d[k] = val on an insertion-ordered dict: a present key keeps its place
DictSet(entries, k, val) ==
    IF HasKey(entries, k)
    THEN [i \in 1..Len(entries) |->
            IF entries[i][1] = k THEN <<k, val>> ELSE entries[i]]
    ELSE Append(entries, <<k, val>>)

\* {**a, **b}
RECURSIVE DictUpdate(_, _)
DictUpdate(a, b) ==
    IF b = <<>> THEN a
    ELSE DictUpdate(DictSet(a, Head(b)[1], Head(b)[2]), Tail(b))

\* bool(x) of a parsed JSON value
Truthy(x) ==
    CASE x.t = "null" -> FALSE
      [] x.t = "str"  -> x.v # ""
      [] x.t = "list" -> x.v # <<>>
      [] x.t = "dict" -> x.v # <<>>
      [] OTHER -> TRUE

----------------------------------------------------------------------------
(* Bounded input universes: every JSON value of at most n nodes (a scalar, *)
(* an array and a mapping count one node each, plus the nodes of their     *)
(* elements) over a given set of keys and scalars.  Arrays hold scalars    *)
(* and mappings.                                                           *)

\* Seq-valued tables built bottom-up: V[s] the values of s nodes, I[m + 1] the
\* array payloads and E[m + 1] the mapping payloads whose elements total m nodes
\* arrays says whether arrays are generated
Leaves(S, arrays) ==
    S \cup {Dict(<<>>)} \cup (IF arrays THEN {List(<<>>)} ELSE {})

\* payloads of m nodes whose first element has at least s nodes
RECURSIVE ItemsOver(_, _, _, _)
ItemsOver(V, I, m, s) ==
    IF s > m THEN {}
    ELSE {<<q[1]>> \o q[2] : q \in {y \in V[s] : ~IsList(y)} \X I[m - s + 1]}
         \cup ItemsOver(V, I, m, s + 1)

RECURSIVE EntriesOver(_, _, _, _, _)
EntriesOver(V, E, m, K, s) ==
    IF s > m THEN {}
    ELSE {<<<<q[1], q[2]>>>> \o q[3]
          : q \in {r \in K \X V[s] \X E[m - s + 1] : ~HasKey(r[3], r[1])}}
         \cup EntriesOver(V, E, m, K, s + 1)

RECURSIVE CupAll(_)
CupAll(V) == IF V = <<>> THEN {} ELSE Head(V) \cup CupAll(Tail(V))

RECURSIVE Grow(_, _, _, _, _, _)
Grow(V, I, E, n, K, arrays) ==
    IF Len(V) >= n THEN CupAll(V)
    ELSE LET m == Len(V)
             I2 == Append(I, IF arrays THEN ItemsOver(V, I, m, 1) ELSE {})
             E2 == Append(E, EntriesOver(V, E, m, K, 1))
             V2 == Append(V, {List(x) : x \in I2[m + 1]}
                             \cup {Dict(e) : e \in E2[m + 1]})
         IN Grow(V2, I2, E2, n, K, arrays)

ValuesUpTo(n, K, S, arrays) ==
    Grow(<<Leaves(S, arrays)>>, <<{<<>>}>>, <<{<<>>}>>, n, K, arrays)

----------------------------------------------------------------------------
(* find_first_list *)

preferred_keys ==
    << <<"requests">>, <<"request">>, <<"data">>, <<"result">>,
       <<"results">>, <<"records">>, <<"response">> >>

RECURSIVE find_first_list(_), FirstFound(_), FirstFoundTruthy(_)

\* the recursive search with "if found:" in place of "if found is not None:"
FirstFoundTruthy(vals) ==
    IF vals = <<>> THEN None
    ELSE LET f == find_first_list(Head(vals))
         IN IF Truthy(f) THEN f ELSE FirstFoundTruthy(Tail(vals))

\* for v in obj.values(): found = find_first_list(v); if found is not None
FirstFound(vals) ==
    IF vals = <<>> THEN None
    ELSE LET f == find_first_list(Head(vals))
         IN IF ~IsNone(f) THEN f ELSE FirstFound(Tail(vals))

\* the preferred-key scan walking the mapping's own keys (insertion order)
find_first_list_by_insertion(o) ==
    IF IsNone(o) THEN None
    ELSE IF IsList(o) THEN o
    ELSE IF IsDict(o) THEN
        LET hits == SelectSeq(KeysOf(o.v),
                        LAMBDA k : k \in Range(preferred_keys)
                                   /\ IsList(Get(o.v, k)))
        IN IF hits # <<>> THEN Get(o.v, hits[1])
           ELSE FirstFound(ValuesOf(o.v))
    ELSE None

find_first_list(o) ==
    IF IsNone(o) THEN None
    ELSE IF IsList(o) THEN o
    ELSE IF IsDict(o) THEN
        LET hits == SelectSeq(preferred_keys,
                        LAMBDA k : HasKey(o.v, k) /\ IsList(Get(o.v, k)))
        IN IF hits # <<>> THEN Get(o.v, hits[1])
           ELSE FirstFound(ValuesOf(o.v))
    ELSE None

LocateKeys == {<<"requests">>, <<"data">>, <<"other">>}
LocateScalars == {None, Str("x")}
MaxLocateSize == 4
LocateInputs(n) == ValuesUpTo(n, LocateKeys, LocateScalars, TRUE)

EmptyDF == [cols |-> <<>>, rows |-> <<>>]
NoResp == [transport_ok |-> FALSE, ctype_json |-> FALSE, valid |-> FALSE,
           code |-> 0, body |-> None]
NoLib == [normalize_raises |-> FALSE, json_error_is_request_exception |-> FALSE]

InitLocate ==
    /\ obj \in LocateInputs(MaxLocateSize)
    /\ op = "none" /\ found = None
    /\ data = None /\ flat = <<>>
    /\ df = EmptyDF /\ preferred = <<>> /\ df_clean = EmptyDF
    /\ resp = NoResp /\ lib = NoLib
    /\ status = {} /\ text = "" /\ j = None /\ parsed = None
    /\ display = "" /\ shown = EmptyDF

CallFindFirstList ==
    /\ op = "none"
    /\ op' = "find_first_list"
    /\ found' = find_first_list(obj)
    /\ UNCHANGED <<obj, data, flat, df, preferred, df_clean, resp, lib,
                   status, text, j, parsed, display, shown>>

SpecLocate == InitLocate /\ [][CallFindFirstList]_vars

\* the priority keys of a mapping that hold lists, as indexes of preferred_keys
ListHolders(o) ==
    {i \in 1..Len(preferred_keys) :
        HasKey(o.v, preferred_keys[i]) /\ IsList(Get(o.v, preferred_keys[i]))}

\* C3: for a mapping in which two or more priority keys hold lists,
\* find_first_list returns the list under the key that is earliest in the
\* fixed priority order, whatever the mapping's insertion order and its
\* other entries.
C3_PriorityOrder ==
    (op = "find_first_list" /\ IsDict(obj) /\ Cardinality(ListHolders(obj)) >= 2)
    => \E i \in ListHolders(obj) :
          /\ \A i2 \in ListHolders(obj) : i <= i2
          /\ Same(found, Get(obj.v, preferred_keys[i]))

\* a mapping whose later-inserted key wins: "data" is inserted first, holds a
\* different list, and the list under "requests" is returned
C3_Witness ==
    /\ op = "find_first_list" /\ IsDict(obj)
    /\ Len(obj.v) >= 2
    /\ obj.v[1][1] = <<"data">> /\ obj.v[2][1] = <<"requests">>
    /\ IsList(obj.v[1][2]) /\ IsList(obj.v[2][2])
    /\ obj.v[1][2] # obj.v[2][2]
    /\ Same(found, obj.v[2][2])

\* a list is reachable from x through nested mappings
RECURSIVE HasList(_)
HasList(x) ==
    \/ IsList(x)
    \/ IsDict(x) /\ \E i \in 1..Len(x.v) : HasList(x.v[i][2])

\* every list reachable from x through nested mappings is empty
RECURSIVE AllListsEmpty(_)
AllListsEmpty(x) ==
    IF IsList(x) THEN x.v = <<>>
    ELSE IF IsDict(x) THEN \A i \in 1..Len(x.v) : AllListsEmpty(x.v[i][2])
    ELSE TRUE

\* C4: find_first_list returns None exactly when no list is reachable
\* through nested mappings; a list argument is returned unchanged; and when
\* the only lists there are are empty, the result is the empty list, not None.
C4_NullIffNoList ==
    op = "find_first_list" =>
        /\ IsNone(found) <=> ~HasList(obj)
        /\ IsList(obj) => Same(found, obj)
        /\ (HasList(obj) /\ AllListsEmpty(obj)) => Same(found, List(<<>>))

\* an empty list two mappings deep is found and returned as the empty list
C4_Witness ==
    /\ op = "find_first_list" /\ IsDict(obj)
    /\ \E i \in 1..Len(obj.v) :
          /\ IsDict(obj.v[i][2])
          /\ \E i2 \in 1..Len(obj.v[i][2].v) :
                Same(obj.v[i][2].v[i2][2], List(<<>>))
    /\ ListHolders(obj) = {}
    /\ AllListsEmpty(obj)
    /\ Same(found, List(<<>>))

----------------------------------------------------------------------------
(* pd.json_normalize(x, sep='.'): flattening one record.                   *)
(* pandas walks a mapping; a non-mapping value found at path p1, ..., pn   *)
(* becomes the column p1.p2...pn.  Values that are not mappings at the top *)
(* level come first, then the flattened nested mappings; a repeated column *)
(* name keeps its first place and takes the last value.                    *)

sep == <<".">>

\* the walk that names every column by its last key alone (no path prefix)
RECURSIVE normalise_json_unprefixed(_, _, _)
normalise_json_unprefixed(entries, key_string, acc) ==
    IF entries = <<>> THEN acc
    ELSE LET k == Head(entries)[1]
             x == Head(entries)[2]
             acc2 == IF IsDict(x) THEN normalise_json_unprefixed(x.v, k, acc)
                     ELSE DictSet(acc, k, x)
         IN normalise_json_unprefixed(Tail(entries), key_string, acc2)

RECURSIVE normalise_json(_, _, _)
normalise_json(entries, key_string, acc) ==
    IF entries = <<>> THEN acc
    ELSE LET k == Head(entries)[1]
             x == Head(entries)[2]
             \* new_key = f"{key_string}{separator}{key}", its leading
             \* separator removed when key_string is empty
             new_key == IF key_string = <<>> THEN k ELSE key_string \o sep \o k
             acc2 == IF IsDict(x) THEN normalise_json(x.v, new_key, acc)
                     ELSE DictSet(acc, new_key, x)
         IN normalise_json(Tail(entries), key_string, acc2)

normalise_json_ordered(entries) ==
    LET top == SelectSeq(entries, LAMBDA e : ~IsDict(e[2]))
        nested == SelectSeq(entries, LAMBDA e : IsDict(e[2]))
    IN DictUpdate(top, normalise_json(nested, <<>>, <<>>))

\* one row of json_normalize: a mapping is flattened, anything else gives {}
simple_json_normalize(row) ==
    IF IsDict(row) THEN normalise_json_ordered(row.v) ELSE <<>>

FlattenKeys == {<<"a">>, <<"b">>, <<"a", ".", "b">>, <<>>}
FlattenScalars == {Str("x"), Str("y")}
MaxFlattenSize == 4

RECURSIVE NoArrays(_)
NoArrays(x) ==
    IF IsList(x) THEN FALSE
    ELSE IF IsDict(x) THEN \A i \in 1..Len(x.v) : NoArrays(x.v[i][2])
    ELSE TRUE

FlattenInputs(n) ==
    {x \in ValuesUpTo(n, FlattenKeys, FlattenScalars, FALSE) : IsDict(x)}

InitFlatten ==
    /\ data \in FlattenInputs(MaxFlattenSize)
    /\ op = "none" /\ flat = <<>>
    /\ obj = None /\ found = None
    /\ df = EmptyDF /\ preferred = <<>> /\ df_clean = EmptyDF
    /\ resp = NoResp /\ lib = NoLib
    /\ status = {} /\ text = "" /\ j = None /\ parsed = None
    /\ display = "" /\ shown = EmptyDF

CallFlatten ==
    /\ op = "none"
    /\ op' = "flatten"
    /\ flat' = simple_json_normalize(data)
    /\ UNCHANGED <<obj, found, data, df, preferred, df_clean, resp, lib,
                   status, text, j, parsed, display, shown>>

SpecFlatten == InitFlatten /\ [][CallFlatten]_vars

\* a column name cut at every "."
RECURSIVE SplitFrom(_, _, _)
SplitFrom(name, cur, out) ==
    IF name = <<>> THEN Append(out, cur)
    ELSE IF Head(name) = "." THEN SplitFrom(Tail(name), <<>>, Append(out, cur))
    ELSE SplitFrom(Tail(name), Append(cur, Head(name)), out)
Split(name) == SplitFrom(name, <<>>, <<>>)

\* entries with val stored under the nested path
RECURSIVE SetPath(_, _, _)
SetPath(entries, path, val) ==
    IF Len(path) = 1 THEN DictSet(entries, path[1], val)
    ELSE LET sub == IF HasKey(entries, path[1]) /\ IsDict(Get(entries, path[1]))
                    THEN Get(entries, path[1]).v ELSE <<>>
         IN DictSet(entries, path[1], Dict(SetPath(sub, Tail(path), val)))

\* re-nesting a flattened row: each column is split on "." and stored there
RECURSIVE RenestInto(_, _)
RenestInto(row, acc) ==
    IF row = <<>> THEN acc
    ELSE RenestInto(Tail(row), SetPath(acc, Split(Head(row)[1]), Head(row)[2]))
Renest(row) == Dict(RenestInto(row, <<>>))

\* equality of two JSON values as Python compares them (mappings unordered)
RECURSIVE JsonEq(_, _)
JsonEq(a, b) ==
    /\ a.t = b.t
    /\ IF IsDict(a)
       THEN /\ Range(KeysOf(a.v)) = Range(KeysOf(b.v))
            /\ \A k \in Range(KeysOf(a.v)) : JsonEq(Get(a.v, k), Get(b.v, k))
       ELSE a = b

RECURSIVE AllKeys(_)
AllKeys(x) ==
    IF IsDict(x)
    THEN Range(KeysOf(x.v)) \cup UNION {AllKeys(x.v[i][2]) : i \in 1..Len(x.v)}
    ELSE {}

\* a mapping nested in x (at any depth below the top) is empty
RECURSIVE HasEmptyNested(_)
HasEmptyNested(x) ==
    IsDict(x) /\ \E i \in 1..Len(x.v) :
        \/ Same(x.v[i][2], Dict(<<>>))
        \/ HasEmptyNested(x.v[i][2])

DotFree(k) == k # <<>> /\ \A i \in 1..Len(k) : k[i] # "."

----------------------------------------------------------------------------
(* DataFrames *)

\* df.empty: no rows or no columns
Empty(d) == Len(d.cols) = 0 \/ Len(d.rows) = 0

\* the result of a call that may raise
Ok(d) == [raised |-> FALSE, df |-> d]
Raised == [raised |-> TRUE, df |-> EmptyDF]

\* try: a  except Exception: b
TryExcept(a, b) == IF a.raised THEN b ELSE a

\* the keys of a list of records, each once, in first-seen order
RECURSIVE FirstSeen(_, _)
FirstSeen(names, acc) ==
    IF names = <<>> THEN acc
    ELSE FirstSeen(Tail(names),
                   IF Head(names) \in Range(acc) THEN acc
                   ELSE Append(acc, Head(names)))

RECURSIVE ColumnsOf(_, _)
ColumnsOf(records, acc) ==
    IF records = <<>> THEN acc
    ELSE ColumnsOf(Tail(records), FirstSeen(KeysOf(Head(records)), acc))

\* pd.DataFrame(list of dicts): one row per record, NaN where a key is missing
DataFrameOfRecords(records) ==
    LET cols == ColumnsOf(records, <<>>)
    IN [cols |-> cols,
        rows |-> [i \in 1..Len(records) |->
                    [c \in 1..Len(cols) |->
                        IF HasKey(records[i], cols[c])
                        THEN Get(records[i], cols[c]) ELSE NaN]]]

\* the integer column label 0 pandas gives a column built from scalars; it
\* equals no string
Label0 == <<"#0">>

\* pd.DataFrame(items) on a raw list: a first element that is a mapping makes
\* pandas read every element's keys (an element without keys raises); a first
\* element that is a scalar gives one column, labelled 0, of the elements
DataFrameOfList(items) ==
    IF items = <<>> THEN Ok(EmptyDF)
    ELSE IF IsDict(items[1])
    THEN IF \A i \in 1..Len(items) : IsDict(items[i])
         THEN Ok(DataFrameOfRecords([i \in 1..Len(items) |-> items[i].v]))
         ELSE Raised
    ELSE Ok([cols |-> <<Label0>>,
             rows |-> [i \in 1..Len(items) |-> <<items[i]>>]])

\* pd.json_normalize(x, sep='.') for a list or a mapping x.  L is the
\* installed pandas: before 1.3 a row that is not a mapping raises
\* (AttributeError on row.values()); from 1.3 on such a row is an empty record.
json_normalize(x, L) ==
    IF IsList(x) /\ x.v = <<>> THEN Ok(EmptyDF)
    ELSE LET rows == IF IsDict(x) THEN <<x>> ELSE x.v
         IN IF L.normalize_raises /\ \E i \in 1..Len(rows) : ~IsDict(rows[i])
            THEN Raised
            ELSE Ok(DataFrameOfRecords(
                        [i \in 1..Len(rows) |-> simple_json_normalize(rows[i])]))

json_to_dataframe(o, L) ==
    IF IsNone(o) THEN Ok(EmptyDF)
    ELSE IF IsList(o)
    THEN TryExcept(json_normalize(o, L), DataFrameOfList(o.v))
    ELSE IF IsDict(o)
    THEN LET lst == find_first_list(o)
         IN IF ~IsNone(lst)
            THEN TryExcept(json_normalize(lst, L), DataFrameOfList(lst.v))
            ELSE TryExcept(json_normalize(o, L), DataFrameOfList(<<o>>))
    ELSE DataFrameOfList(<<o>>)

PREFERRED_CREATE_COLUMNS ==
    << <<"id">>, <<"subject">>, <<"description">>,
       <<"requester", ".", "id">>, <<"requester", ".", "name">>,
       <<"status", ".", "name">>, <<"site", ".", "name">>,
       <<"account", ".", "name">>, <<"created_time", ".", "display_value">> >>

PREFERRED_VIEW_COLUMNS ==
    << <<"id">>, <<"subject">>,
       <<"requester", ".", "id">>, <<"requester", ".", "name">>,
       <<"status", ".", "name">>, <<"priority", ".", "name">>,
       <<"technician", ".", "name">>, <<"assigned_to", ".", "name">>,
       <<"group", ".", "name">>, <<"site", ".", "name">>,
       <<"account", ".", "name">>, <<"created_time">>,
       <<"created_time", ".", "display_value">>,
       <<"due_by_time", ".", "display_value">> >>

IndexOf(seq, x) == CHOOSE i \in 1..Len(seq) : seq[i] = x

\* df[present]
Project(d, present) ==
    [cols |-> present,
     rows |-> [i \in 1..Len(d.rows) |->
                 [c \in 1..Len(present) |-> d.rows[i][IndexOf(d.cols, present[c])]]]]

\* df.reindex(columns=preferred): every preferred column, NaN where absent
pick_by_reindex(d, P) ==
    IF Empty(d) THEN d
    ELSE [cols |-> P,
          rows |-> [i \in 1..Len(d.rows) |->
                      [c \in 1..Len(P) |->
                          IF P[c] \in Range(d.cols)
                          THEN d.rows[i][IndexOf(d.cols, P[c])] ELSE NaN]]]

\* present = [c for c in df.columns if c in preferred]: the table's order
pick_in_table_order(d, P) ==
    IF Empty(d) THEN d
    ELSE LET present == SelectSeq(d.cols, LAMBDA c : c \in Range(P))
         IN IF present # <<>> THEN Project(d, present) ELSE d

pick_preferred_columns(d, P) ==
    IF Empty(d) THEN d
    ELSE LET present == SelectSeq(P, LAMBDA c : c \in Range(d.cols))
         IN IF present # <<>> THEN Project(d, present) ELSE d

\* what interactive_table puts on the page
interactive_table(d, default_columns) ==
    IF Empty(d) THEN [display |-> "no_data", shown |-> EmptyDF]
    ELSE LET preferred_present ==
                 SelectSeq(default_columns, LAMBDA c : c \in Range(d.cols))
         IN [display |-> "table",
             shown |-> IF preferred_present # <<>>
                       THEN Project(d, preferred_present) ELSE d]

----------------------------------------------------------------------------
(* pick_preferred_columns on bounded tables and preference lists *)

MaxCols == 2
MaxRows == 1
MaxPref == 2

TableColumns == {<<"id">>, <<"subject">>, <<"status", ".", "name">>}
PrefColumns == TableColumns \cup {<<"nonexistent_col">>}
Cells == {Str("x"), NaN}

\* the sequences over S of length at most n
SeqsUpTo(S, n) == UNION {[1..m -> S] : m \in 0..n}

Distinct(seq) == \A a, b \in 1..Len(seq) : seq[a] = seq[b] => a = b

Tables(nc, nr) ==
    {[cols |-> q[1], rows |-> q[2]] :
        q \in {r \in {c \in SeqsUpTo(TableColumns, nc) : Distinct(c)}
                      \X SeqsUpTo(SeqsUpTo(Cells, nc), nr) :
                  \A i \in 1..Len(r[2]) : Len(r[2][i]) = Len(r[1])}}

InitPick ==
    /\ df \in Tables(MaxCols, MaxRows)
    /\ preferred \in SeqsUpTo(PrefColumns, MaxPref)
    /\ op = "none" /\ df_clean = EmptyDF
    /\ obj = None /\ found = None
    /\ data = None /\ flat = <<>>
    /\ resp = NoResp /\ lib = NoLib
    /\ status = {} /\ text = "" /\ j = None /\ parsed = None
    /\ display = "" /\ shown = EmptyDF

CallPickPreferredColumns ==
    /\ op = "none"
    /\ op' = "pick"
    /\ df_clean' = pick_preferred_columns(df, preferred)
    /\ UNCHANGED <<obj, found, data, flat, df, preferred, resp, lib,
                   status, text, j, parsed, display, shown>>

SpecPick == InitPick /\ [][CallPickPreferredColumns]_vars

\* C1: the projection holds no column that is absent from the table, and
\* when no preferred column is a column of the table the result is the
\* table itself (same columns, same order, same rows).
C1_ProjectionSafety ==
    op = "pick" =>
        /\ Range(df_clean.cols) \subseteq Range(df.cols)
        /\ (Range(preferred) \cap Range(df.cols) = {}) => df_clean = df

\* a populated two-column table and a non-empty preference list naming none
\* of its columns: the table comes back unchanged
C1_Witness ==
    /\ op = "pick"
    /\ Len(df.cols) = 2 /\ Len(df.rows) = 1
    /\ preferred # <<>>
    /\ Range(preferred) \cap Range(df.cols) = {}
    /\ df_clean = df

\* the places of the preference list that name a column of the table
Hits == {i \in 1..Len(preferred) : preferred[i] \in Range(df.cols)}

\* C2: for a non-empty table sharing a column with the preference list, the
\* projection's columns are exactly the preferred entries that are columns
\* of the table, in the preference list's order, and no row is lost.
C2_PreferenceOrder ==
    (op = "pick" /\ ~Empty(df) /\ Hits # {}) =>
        /\ Len(df_clean.cols) = Cardinality(Hits)
        /\ \A i \in Hits :
              df_clean.cols[Cardinality({i2 \in Hits : i2 <= i})] = preferred[i]
        /\ Len(df_clean.rows) = Len(df.rows)

\* two shared columns that the preference list names in the opposite order
\* to the table's: the projection follows the preference list
C2_Witness ==
    /\ op = "pick" /\ ~Empty(df)
    /\ Len(df.cols) = 2 /\ Len(preferred) = 2
    /\ preferred[1] = df.cols[2] /\ preferred[2] = df.cols[1]
    /\ df_clean.cols = preferred
    /\ df_clean.cols # df.cols
    /\ Len(df_clean.rows) = Len(df.rows)

----------------------------------------------------------------------------
(* The HTTP wrappers.  r is the exchange: transport_ok is FALSE when        *)
(* requests raises a RequestException (connection failure, timeout);        *)
(* ctype_json says whether Content-Type holds application/json; valid says  *)
(* whether the body text is JSON, and body is then its parse.  L is the     *)
(* installed requests: from 2.27 on the error r.json() raises is a          *)
(* requests.exceptions.JSONDecodeError, which is a RequestException as well *)
(* as a ValueError, so the first except clause takes it; before 2.27 it is  *)
(* a plain ValueError and the second clause takes it.                       *)
(* The result is <<status, text, j>>: status is {} for None, text is "body" *)
(* for r.text and "error" for str(e).                                       *)

safe_request_post(r, L) ==
    IF ~r.transport_ok THEN [status |-> {}, text |-> "error", j |-> None]
    ELSE IF ~r.ctype_json THEN [status |-> {r.code}, text |-> "body", j |-> None]
    ELSE IF r.valid THEN [status |-> {r.code}, text |-> "body", j |-> r.body]
    ELSE IF L.json_error_is_request_exception
    THEN [status |-> {}, text |-> "error", j |-> None]
    ELSE [status |-> {r.code}, text |-> "body", j |-> None]

safe_request_get(r, L) ==
    IF ~r.transport_ok THEN [status |-> {}, text |-> "error", j |-> None]
    ELSE IF ~r.ctype_json THEN [status |-> {r.code}, text |-> "body", j |-> None]
    ELSE IF r.valid THEN [status |-> {r.code}, text |-> "body", j |-> r.body]
    ELSE IF L.json_error_is_request_exception
    THEN [status |-> {}, text |-> "error", j |-> None]
    ELSE [status |-> {r.code}, text |-> "body", j |-> None]

\* parsed = j if j is not None else json.loads(text), None when that raises
ParseResponse(r, got) ==
    IF ~IsNone(got.j) THEN got.j
    ELSE IF r.valid THEN r.body ELSE None

----------------------------------------------------------------------------
(* create_request_flow's inline conversion *)

create_keys ==
    << <<"requests">>, <<"data">>, <<"result">>, <<"results">>,
       <<"records">>, <<"response">> >>

\* the conversion without the "if df.empty" fallback to the whole mapping
create_convert_no_fallback(p, L) ==
    IF IsDict(p)
    THEN IF HasKey(p.v, <<"request">>) /\ IsDict(Get(p.v, <<"request">>))
         THEN json_normalize(Get(p.v, <<"request">>), L)
         ELSE LET hits == SelectSeq(create_keys,
                              LAMBDA k : HasKey(p.v, k)
                                         /\ (IsList(Get(p.v, k)) \/ IsDict(Get(p.v, k))))
              IN IF hits = <<>> THEN Ok(EmptyDF)
                 ELSE json_normalize(Get(p.v, hits[1]), L)
    ELSE IF IsList(p)
    THEN TryExcept(json_normalize(p, L), DataFrameOfList(p.v))
    ELSE Ok(EmptyDF)

create_convert(p, L) ==
    IF IsDict(p)
    THEN IF HasKey(p.v, <<"request">>) /\ IsDict(Get(p.v, <<"request">>))
         THEN json_normalize(Get(p.v, <<"request">>), L)
         ELSE \* the first of create_keys that holds a list or a mapping
              LET hits == SelectSeq(create_keys,
                              LAMBDA k : HasKey(p.v, k)
                                         /\ (IsList(Get(p.v, k)) \/ IsDict(Get(p.v, k))))
                  first == IF hits = <<>> THEN Ok(EmptyDF)
                           ELSE json_normalize(Get(p.v, hits[1]), L)
              IN IF first.raised THEN Raised
                 ELSE IF Empty(first.df)
                 THEN TryExcept(json_normalize(p, L), DataFrameOfList(<<p>>))
                 ELSE first
    ELSE IF IsList(p)
    THEN TryExcept(json_normalize(p, L), DataFrameOfList(p.v))
    ELSE Ok(EmptyDF)

----------------------------------------------------------------------------
(* The two flows.  Each is one run of the script after the form is         *)
(* submitted: nothing is kept from one run to the next.                    *)

PayloadKeys == {<<"request">>, <<"data">>, <<"result">>, <<"id">>}
PayloadScalars == {Str("x")}
MaxPayloadSize == 4
Payloads(n) == ValuesUpTo(n, PayloadKeys, PayloadScalars, TRUE)
StatusCodes == {200}

Responses(n) ==
    {NoResp}
    \cup {[transport_ok |-> TRUE, ctype_json |-> q[1], valid |-> TRUE,
           code |-> q[2], body |-> q[3]] : q \in BOOLEAN \X StatusCodes \X Payloads(n)}
    \* the body "null"
    \cup {[transport_ok |-> TRUE, ctype_json |-> q[1], valid |-> TRUE,
           code |-> q[2], body |-> None] : q \in BOOLEAN \X StatusCodes}
    \cup {[transport_ok |-> TRUE, ctype_json |-> q[1], valid |-> FALSE,
           code |-> q[2], body |-> None] : q \in BOOLEAN \X StatusCodes}

Libs == [normalize_raises : BOOLEAN, json_error_is_request_exception : BOOLEAN]

Init ==
    /\ resp \in Responses(MaxPayloadSize)
    /\ lib \in Libs
    /\ op = "none"
    /\ obj = None /\ found = None
    /\ data = None /\ flat = <<>>
    /\ df = EmptyDF /\ preferred = <<>> /\ df_clean = EmptyDF
    /\ status = {} /\ text = "" /\ j = None /\ parsed = None
    /\ display = "" /\ shown = EmptyDF

\* what a run leaves behind
Outcome(got, p, d, P, dc, disp, sh) ==
    /\ status' = got.status /\ text' = got.text /\ j' = got.j
    /\ parsed' = p /\ df' = d /\ preferred' = P /\ df_clean' = dc
    /\ display' = disp /\ shown' = sh

create_request_flow ==
    /\ op = "none"
    /\ op' = "create"
    /\ \E got \in {safe_request_post(resp, lib)} :
       \E p \in {ParseResponse(resp, got)} :
       \E conv \in {create_convert(p, lib)} :
       \E clean \in {pick_preferred_columns(conv.df, PREFERRED_CREATE_COLUMNS)} :
       \E page \in {interactive_table(clean, PREFERRED_CREATE_COLUMNS)} :
          IF got.status = {}
          THEN Outcome(got, None, EmptyDF, <<>>, EmptyDF, "request_error", EmptyDF)
          ELSE IF ~Truthy(p)
          THEN Outcome(got, p, EmptyDF, <<>>, EmptyDF, "raw_text", EmptyDF)
          ELSE IF conv.raised
          THEN Outcome(got, p, EmptyDF, <<>>, EmptyDF, "exception", EmptyDF)
          ELSE IF Empty(clean)
          THEN Outcome(got, p, conv.df, PREFERRED_CREATE_COLUMNS, clean,
                       "raw_json", EmptyDF)
          ELSE Outcome(got, p, conv.df, PREFERRED_CREATE_COLUMNS, clean,
                       page.display, page.shown)
    /\ UNCHANGED <<obj, found, data, flat, resp, lib>>

view_request_flow ==
    /\ op = "none"
    /\ op' = "view"
    /\ \E got \in {safe_request_get(resp, lib)} :
       \E p \in {ParseResponse(resp, got)} :
       \E conv \in {json_to_dataframe(p, lib)} :
       \E clean \in {pick_preferred_columns(conv.df, PREFERRED_VIEW_COLUMNS)} :
       \E page \in {interactive_table(clean, PREFERRED_VIEW_COLUMNS)} :
          IF got.status = {}
          THEN Outcome(got, None, EmptyDF, <<>>, EmptyDF, "request_error", EmptyDF)
          ELSE IF ~Truthy(p)
          THEN Outcome(got, p, EmptyDF, <<>>, EmptyDF, "raw_text", EmptyDF)
          ELSE IF conv.raised
          THEN Outcome(got, p, EmptyDF, <<>>, EmptyDF, "exception", EmptyDF)
          ELSE IF Empty(conv.df)
          THEN Outcome(got, p, conv.df, <<>>, EmptyDF, "raw_json", EmptyDF)
          ELSE Outcome(got, p, conv.df, PREFERRED_VIEW_COLUMNS, clean,
                       page.display, page.shown)
    /\ UNCHANGED <<obj, found, data, flat, resp, lib>>

Next == create_request_flow \/ view_request_flow

Spec == Init /\ [][Next]_vars

----------------------------------------------------------------------------
(* Claims about the flows *)

Flows == {"create", "view"}

\* a run that received a response whose body is JSON
ParsedOk == op \in Flows /\ resp.transport_ok /\ resp.valid

\* a run that went on to build a table from the parsed payload
ConversionRan == op \in Flows /\ status # {} /\ Truthy(parsed)

\* x holds a value that is neither an array nor a mapping
RECURSIVE HasLeaf(_)
HasLeaf(x) ==
    IF IsList(x) THEN \E i \in 1..Len(x.v) : HasLeaf(x.v[i])
    ELSE IF IsDict(x) THEN \E i \in 1..Len(x.v) : HasLeaf(x.v[i][2])
    ELSE TRUE

\* C6: in both flows, a received response whose JSON holds a leaf value ends
\* in a table with at least one row and one column or in the raw payload
\* (raw JSON or raw text), never in a bare empty table.
C6_NeverBareEmptyTable ==
    (ParsedOk /\ HasLeaf(resp.body)) =>
        \/ display = "table" /\ ~Empty(shown)
        \/ display \in {"raw_json", "raw_text"}

\* C7: a response that announces JSON and whose body is not JSON comes back
\* from the wrapper with its status code and raw body, no parsed value, and
\* the flow shows the raw body, not a request error.
C7_DecodeFailureKeepsBody ==
    (op \in Flows /\ resp.transport_ok /\ resp.ctype_json /\ ~resp.valid) =>
        /\ status = {resp.code}
        /\ text = "body"
        /\ IsNone(j)
        /\ display = "raw_text"

\* the payload is an empty list, or the list located in it is empty
ZeroRows ==
    \/ Same(resp.body, List(<<>>))
    \/ IsDict(resp.body) /\ Same(find_first_list(resp.body), List(<<>>))

\* C8: a parsed response that yields zero rows ends in the "no data"
\* message, not in an empty table, raw JSON or raw text.
C8_ZeroRowsNoData ==
    (ParsedOk /\ ZeroRows) => display = "no_data"

\* the dot-joined paths from the top of a mapping to its non-mapping values
RECURSIVE LeafPathsFrom(_, _)
LeafPathsFrom(entries, path) ==
    UNION {LET here == IF path = <<>> THEN entries[i][1]
                       ELSE path \o sep \o entries[i][1]
           IN IF IsDict(entries[i][2])
              THEN LeafPathsFrom(entries[i][2].v, here)
              ELSE {here}
           : i \in 1..Len(entries)}
LeafPaths(m) == LeafPathsFrom(m.v, <<>>)

\* d is one row whose columns are the leaf paths of the mapping m
OneRowOf(d, m) ==
    /\ Len(d.rows) = 1
    /\ Distinct(d.cols)
    /\ Range(d.cols) = LeafPaths(m)

\* C9 as stated: for a parsed mapping that holds no list anywhere, the table
\* built before projection is one row whose columns are the leaf paths of
\* the whole mapping, in the view flow and in the create flow alike.
C9_WholeMappingBothFlows ==
    (ConversionRan /\ IsDict(parsed) /\ ~HasList(parsed)) => OneRowOf(df, parsed)

\* the mapping the create flow flattens when the payload holds no list
CreateSource(m) ==
    IF HasKey(m.v, <<"request">>) /\ IsDict(Get(m.v, <<"request">>))
    THEN Get(m.v, <<"request">>)
    ELSE LET held == {i \in 1..Len(create_keys) :
                        HasKey(m.v, create_keys[i])
                        /\ IsDict(Get(m.v, create_keys[i]))}
         IN IF held = {} THEN m
            ELSE LET sub == Get(m.v, create_keys[CHOOSE i \in held :
                                                   \A i2 \in held : i <= i2])
                 IN IF LeafPaths(sub) = {} THEN m ELSE sub

\* C9 as amended: for a parsed mapping that holds no list anywhere,
\* json_to_dataframe (view flow) builds one row whose columns are the leaf
\* paths of the whole mapping; the create flow builds its one row from the
\* mapping under "request" when there is one, else from the first of
\* requests, data, result, results, records, response that holds a mapping
\* when that mapping has a leaf, and from the whole mapping otherwise.
C9_OneRowOfLeafPaths ==
    (ConversionRan /\ IsDict(parsed) /\ ~HasList(parsed)) =>
        /\ op = "view" => OneRowOf(df, parsed)
        /\ op = "create" => OneRowOf(df, CreateSource(parsed))

\* the create flow flattens the mapping under "data" alone: its row has the
\* column id, not data.id
C9_Witness ==
    /\ ConversionRan /\ op = "create"
    /\ IsDict(parsed) /\ ~HasList(parsed)
    /\ HasKey(parsed.v, <<"data">>) /\ IsDict(Get(parsed.v, <<"data">>))
    /\ df.cols = << <<"id">> >>
    /\ Len(df.rows) = 1
    /\ <<"data", ".", "id">> \in LeafPaths(parsed)

\* C10: when flattening the located rows fails, the table degrades to a
\* best-effort one and the run completes: no exception leaves
\* json_to_dataframe or the create flow's inline conversion.
C10_FlatteningFailureContained ==
    (op \in Flows /\ lib.normalize_raises) => display # "exception"

=============================================================================
